---- MODULE Spec2Model ----
(***************************************************************************)
(* Model of drv/core.py: the finite discrete random variable FDRV, its     *)
(* probability queries (pmf, cdf, ppf) and its operations (binop, map).    *)
(*                                                                         *)
(* Probabilities are exact rationals [n, d] in lowest terms; Python floats *)
(* are abstracted to exact arithmetic, so rounding effects are outside the *)
(* model.  Python indices are 0-based; sequences here are 1-based, and the *)
(* helpers At / Index keep the Python numbering.                           *)
(***************************************************************************)
EXTENDS Integers, Sequences, FiniteSets, TLC

VARIABLES self, call, result

vars == <<self, call, result>>

----------------------------------------------------------------------------
(* Bounds of the model *)

MaxLen == 3

NumCat == 2

MaxWeight == 1

QDen == 4

----------------------------------------------------------------------------
(* Exact rational arithmetic standing for Python float arithmetic *)

RECURSIVE GCD(_, _)
GCD(a, b) == IF b = 0 THEN a ELSE GCD(b, a % b)

Abs(a) == IF a < 0 THEN 0 - a ELSE a

Rat(n, d) == LET g == GCD(Abs(n), Abs(d)) IN [n |-> n \div g, d |-> d \div g]

Zero == [n |-> 0, d |-> 1]

One == [n |-> 1, d |-> 1]

RatAdd(a, b) == Rat(a.n * b.d + b.n * a.d, a.d * b.d)

RatLT(a, b) == a.n * b.d < b.n * a.d

RatLE(a, b) == a.n * b.d <= b.n * a.d

RECURSIVE SumInts(_)
SumInts(s) == IF s = <<>> THEN 0 ELSE Head(s) + SumInts(Tail(s))

RECURSIVE SumRats(_)
SumRats(s) == IF s = <<>> THEN Zero ELSE RatAdd(Head(s), SumRats(Tail(s)))

----------------------------------------------------------------------------
(* Python sequence helpers *)

At(s, i) == s[i + 1]

Min(a, b) == IF a < b THEN a ELSE b

\* list.index(k): the first 0-based position holding k, -1 standing for the
\* ValueError list.index raises when k is absent.
Index(xs, k) ==
    IF \E i \in 1..Len(xs) : xs[i] = k
    THEN (CHOOSE i \in 1..Len(xs) : xs[i] = k /\ \A j \in 1..(i - 1) : xs[j] # k) - 1
    ELSE 0 - 1

SeqsUpTo(S, n) == UNION {[1..m -> S] : m \in 0..n}

----------------------------------------------------------------------------
(* Results of a call: a returned value or a raised exception *)

\* An object: an instance of cls; Null is the absence of an object
Null == [cls |-> "None", name |-> "", xs |-> <<>>, ps |-> <<>>]

\* The NotImplemented singleton of Python
NotImplemented == [cls |-> "NotImplementedType", name |-> "", xs |-> <<>>, ps |-> <<>>]

NoResult == [exc |-> "", p |-> Zero, x |-> 0, obj |-> Null]

ReturnP(p) == [exc |-> "", p |-> p, x |-> 0, obj |-> Null]

ReturnX(x) == [exc |-> "", p |-> Zero, x |-> x, obj |-> Null]

ReturnObj(o) == [exc |-> "", p |-> Zero, x |-> 0, obj |-> o]

Raise(e) == [exc |-> e, p |-> Zero, x |-> 0, obj |-> Null]

----------------------------------------------------------------------------
(* pspace.FDPSpace: the probability space collaborator.  It rejects a       *)
(* negative weight and a zero total, and divides every weight by the total. *)

FDPSpace(ps) ==
    IF \E i \in 1..Len(ps) : ps[i] < 0 THEN [exc |-> "ValidationError", ps |-> <<>>]
    ELSE IF SumInts(ps) = 0 THEN [exc |-> "ValidationError", ps |-> <<>>]
    ELSE [exc |-> "", ps |-> [i \in 1..Len(ps) |-> Rat(ps[i], SumInts(ps))]]

----------------------------------------------------------------------------
(* Classes of the module and attribute lookup *)

\* FDRV declared as a subclass of DRV
ClassBase_FDRVDerivesDRV ==
    [c \in {"DRV", "FDRV", "int", "str", "object"} |->
        IF c = "FDRV" THEN "DRV" ELSE "object"]

\* The base class named in each class statement
ClassBase ==
    [c \in {"DRV", "FDRV", "int", "str", "object"} |-> "object"]

ClassAttrs ==
    [c \in {"DRV", "FDRV", "int", "str", "object"} |->
        CASE c = "DRV" -> {"__init__", "_cls", "__repr__", "__str__", "mode",
                           "support", "pmf", "flatten", "map"}
          [] c = "FDRV" -> {"__init__", "func", "items", "mode", "support",
                            "_cdf", "cdf", "pmf", "ppf", "logpmf", "binop"}
          [] OTHER -> {}]

RECURSIVE IsSubclass(_, _)
IsSubclass(c, d) ==
    IF c = d THEN TRUE
    ELSE IF c = "object" THEN FALSE
    ELSE IsSubclass(ClassBase[c], d)

\* isinstance(other, DRV), other being given by its class
IsInstance(cls, d) == IsSubclass(cls, d)

\* The class along the MRO of cls that defines attr, "AttributeError" if none
RECURSIVE Lookup(_, _)
Lookup(cls, attr) ==
    IF attr \in ClassAttrs[cls] THEN cls
    ELSE IF cls = "object" THEN "AttributeError"
    ELSE Lookup(ClassBase[cls], attr)

----------------------------------------------------------------------------
(* FDRV *)

\* FDRV.__init__(name, xs, ps): the object built, Null when FDPSpace raises
FDRV_init(name, xs, ps) ==
    LET pspace == FDPSpace(ps) IN
    IF pspace.exc # "" THEN Null
    ELSE [cls |-> "FDRV", name |-> name, xs |-> xs, ps |-> pspace.ps]

\* FDRV.items: zip(self.xs, self.pspace.ps), cut at the shorter sequence
items(o) == [j \in 1..Min(Len(o.xs), Len(o.ps)) |-> <<o.xs[j], o.ps[j]>>]

\* FDRV._cdf(i): sum of p over the items at positions j <= i
FDRV__cdf(o, i) ==
    LET it == items(o)
        n == Min(Len(it), i + 1)
    IN SumRats([j \in 1..n |-> it[j][2]])

\* FDRV.cdf(k)
FDRV_cdf(o, k) ==
    LET i == Index(o.xs, k) IN
    IF i < 0 THEN Raise("ValueError") ELSE ReturnP(FDRV__cdf(o, i))

\* FDRV.pmf(k)
FDRV_pmf(o, k) ==
    LET i == Index(o.xs, k) IN
    IF i < 0 THEN ReturnP(Zero)
    ELSE IF i >= Len(o.ps) THEN Raise("IndexError")
    ELSE ReturnP(At(o.ps, i))

\* The for loop of FDRV.ppf from position i (0-based) on, then the fallback
RECURSIVE ppfScan(_, _, _)
ppfScan(o, q, i) ==
    IF i >= Len(o.xs)
    THEN IF Len(o.xs) = 0 THEN Raise("IndexError")
         ELSE ReturnX(At(o.xs, Len(o.xs) - 1))
    ELSE IF RatLE(q, FDRV_cdf(o, At(o.xs, i)).p) THEN ReturnX(At(o.xs, i))
    ELSE ppfScan(o, q, i + 1)

\* FDRV.ppf(q); PPF_DOMAIN is not defined in the module, so evaluating the
\* argument of the raise statement raises NameError
FDRV_ppf(o, q) ==
    IF ~(RatLT(Zero, q) /\ RatLE(q, One)) THEN Raise("NameError")
    ELSE ppfScan(o, q, 0)

\* binop without the isinstance guard: every operand reaches the raise
FDRV_binop_Unguarded(o, other, operator, name) ==
    Raise("NotImplementedError")

\* FDRV.binop(other, operator, name), other being given by its class
FDRV_binop(o, other, operator, name) ==
    IF ~IsInstance(other, "DRV") THEN ReturnObj(NotImplemented)
    ELSE Raise("NotImplementedError")

\* The functions handed to map
Apply(function, x) ==
    CASE function = "identity" -> x
      [] function = "negate" -> 0 - x

\* DRV.map(function, name, klass=None, flatten=False) on receiver o: the new
\* object klass(self.pspace, func, name), its func tabulated over the sample
\* points as xs; DRV.flatten raises NotImplementedError
DRV_map(o, function, name, klass, flatten) ==
    LET k == IF klass = "None" THEN o.cls ELSE klass
        func == [i \in 1..Len(o.xs) |-> Apply(function, o.xs[i])]
        drv == [cls |-> k, name |-> name, xs |-> func, ps |-> o.ps]
    IN IF ~flatten THEN ReturnObj(drv)
       ELSE Raise("NotImplementedError")

\* o.map(function, name): attribute lookup on the class of o, then the call
CallMap(o, function, name) ==
    IF Lookup(o.cls, "map") = "AttributeError" THEN Raise("AttributeError")
    ELSE DRV_map(o, function, name, "None", FALSE)

----------------------------------------------------------------------------
(* Inputs *)

Categories == 1..NumCat

Keys == 0..NumCat

RawWeights == (0 - 1)..MaxWeight

Quantiles == {Rat(n, QDen) : n \in (0 - 1)..(QDen + 1)}

VarNames == {"X"}

Names == {"Y", "Z"}

Operands == {"int", "str", "FDRV", "DRV"}

Operators == {"add", "mul"}

Functions == {"identity", "negate"}

NoCall ==
    [op |-> "", name |-> "", xs |-> <<>>, ps |-> <<>>, k |-> 0, q |-> Zero,
     other |-> "", operator |-> "", function |-> ""]

----------------------------------------------------------------------------
(* The state machine: construct a variable, then query it *)

Init ==
    /\ self = Null
    /\ call = NoCall
    /\ result = NoResult

\* FDRV(name, xs, ps)
New(name, xs, ps) ==
    /\ self' = FDRV_init(name, xs, ps)
    /\ call' = [NoCall EXCEPT !.op = "__init__", !.name = name, !.xs = xs, !.ps = ps]
    /\ result' = IF FDPSpace(ps).exc # "" THEN Raise(FDPSpace(ps).exc)
                 ELSE ReturnObj(FDRV_init(name, xs, ps))

\* self.cdf(k)
Cdf(k) ==
    /\ self.cls = "FDRV"
    /\ call' = [NoCall EXCEPT !.op = "cdf", !.k = k]
    /\ result' = FDRV_cdf(self, k)
    /\ UNCHANGED self

\* self.pmf(k)
Pmf(k) ==
    /\ self.cls = "FDRV"
    /\ call' = [NoCall EXCEPT !.op = "pmf", !.k = k]
    /\ result' = FDRV_pmf(self, k)
    /\ UNCHANGED self

\* self.ppf(q)
Ppf(q) ==
    /\ self.cls = "FDRV"
    /\ call' = [NoCall EXCEPT !.op = "ppf", !.q = q]
    /\ result' = FDRV_ppf(self, q)
    /\ UNCHANGED self

\* self.binop(other, operator, name)
Binop(other, operator, name) ==
    /\ self.cls = "FDRV"
    /\ call' = [NoCall EXCEPT !.op = "binop", !.other = other,
                              !.operator = operator, !.name = name]
    /\ result' = FDRV_binop(self, other, operator, name)
    /\ UNCHANGED self

\* self.map(function, name)
Map(function, name) ==
    /\ self.cls = "FDRV"
    /\ call' = [NoCall EXCEPT !.op = "map", !.function = function, !.name = name]
    /\ result' = CallMap(self, function, name)
    /\ UNCHANGED self

\* Each behaviour constructs one variable, before any query
Construct ==
    /\ call = NoCall
    /\ \E name \in VarNames, xs \in SeqsUpTo(Categories, MaxLen),
          ps \in SeqsUpTo(RawWeights, MaxLen) : New(name, xs, ps)

Next ==
    \/ Construct
    \/ \E k \in Keys : Cdf(k)
    \/ \E k \in Keys : Pmf(k)
    \/ \E q \in Quantiles : Ppf(q)
    \/ \E other \in Operands, operator \in Operators, name \in Names :
          Binop(other, operator, name)
    \/ \E function \in Functions, name \in Names : Map(function, name)

Spec == Init /\ [][Next]_vars

----------------------------------------------------------------------------
(* Properties *)

InUnit(q) == RatLT(Zero, q) /\ RatLE(q, One)

Contains(xs, k) == \E i \in 1..Len(xs) : xs[i] = k

\* C1: after ppf(q) with 0 < q <= 1 on any constructed variable, ppf has
\* returned a category and cdf of that category is at least q.
C1_CdfOfPpfAtLeastQ ==
    (call.op = "ppf" /\ InUnit(call.q)) =>
        /\ result.exc = ""
        /\ FDRV_cdf(self, result.x).exc = ""
        /\ RatLE(call.q, FDRV_cdf(self, result.x).p)

\* C2: for every constructed variable, pmf of every entry of the category
\* sequence returns, and the values, one per position, sum to 1.
C2_PmfSumsToOne ==
    self.cls = "FDRV" =>
        /\ \A i \in 1..Len(self.xs) : FDRV_pmf(self, self.xs[i]).exc = ""
        /\ SumRats([i \in 1..Len(self.xs) |-> FDRV_pmf(self, self.xs[i]).p]) = One

\* C3: cdf(k) of a category k returns the sum of pmf(x) over the entries x at
\* positions 0..index(k) of the category sequence.
C3_CdfIsPrefixSumOfPmf ==
    (call.op = "cdf" /\ Contains(self.xs, call.k)) =>
        LET n == Index(self.xs, call.k) + 1 IN
        /\ result.exc = ""
        /\ \A j \in 1..n : FDRV_pmf(self, self.xs[j]).exc = ""
        /\ result.p = SumRats([j \in 1..n |-> FDRV_pmf(self, self.xs[j]).p])

\* C4: ppf(q) with 0 < q <= 1 returns the category at the smallest position
\* whose cdf is at least q: it satisfies the inequality and no category at an
\* earlier position does.
C4_PpfSmallestPosition ==
    (call.op = "ppf" /\ InUnit(call.q)) =>
        /\ result.exc = ""
        /\ \E i \in 1..Len(self.xs) :
              /\ self.xs[i] = result.x
              /\ RatLE(call.q, FDRV_cdf(self, self.xs[i]).p)
              /\ \A j \in 1..(i - 1) : RatLT(FDRV_cdf(self, self.xs[j]).p, call.q)

\* C5: construction with categories and raw weights of different lengths
\* fails with ValidationError, and every constructed variable has as many
\* categories as weights.
C5_LengthsChecked ==
    /\ (call.op = "__init__" /\ Len(call.xs) # Len(call.ps)) =>
          result.exc = "ValidationError"
    /\ self.cls = "FDRV" => Len(self.xs) = Len(self.ps)

\* C6: cdf(k) of a k that is not a category, and ppf(q) of a q outside (0, 1],
\* raise the value/domain error and no other failure.
C6_DomainErrors ==
    /\ (call.op = "cdf" /\ ~Contains(self.xs, call.k)) => result.exc = "ValueError"
    /\ (call.op = "ppf" /\ ~InUnit(call.q)) => result.exc = "ValueError"

\* C7: pmf(k) of a k that is not a category returns exactly 0 without raising;
\* pmf(k) of a category returns the weight stored at k's position.
C7_PmfLookup ==
    call.op = "pmf" =>
        IF ~Contains(self.xs, call.k) THEN result = ReturnP(Zero)
        ELSE /\ result.exc = ""
             /\ Index(self.xs, call.k) < Len(self.ps)
             /\ result.p = At(self.ps, Index(self.xs, call.k))

\* C8: map(function, name) on a finite variable returns a new variable whose
\* categories are function(x) in stored order and whose weights are those of
\* the original, and leaves the original as it was.
C8_MapPushforward ==
    call.op = "map" =>
        /\ result.exc = ""
        /\ result.obj.cls = "FDRV"
        /\ result.obj.name = call.name
        /\ result.obj.xs = [i \in 1..Len(self.xs) |-> Apply(call.function, self.xs[i])]
        /\ result.obj.ps = self.ps

\* C9: binop with an operand that is not a variable returns the
\* NotImplemented sentinel and does not raise, whatever the operator and name.
C9_BinopNotSupported ==
    (call.op = "binop" /\ call.other \notin {"DRV", "FDRV"}) =>
        result = ReturnObj(NotImplemented)

C9_Witness ==
    /\ call.op = "binop"
    /\ call.other = "int"
    /\ call.operator = "mul"
    /\ result.obj = NotImplemented

====
